---- MODULE Spec2Model ----
(***************************************************************************)
(* Model of the video-to-findings pipeline of Defectra:                    *)
(*   VideoProcessor.extract_frames          (src/video_processor.py)       *)
(*   analyze_image_with_gemini / fallback   (src/gemini_intagration.py)    *)
(*   VideoProcessor.analyze_video_with_ai   (src/video_processor.py)       *)
(*   VideoProcessor._create_defect_timeline (src/video_processor.py)       *)
(*                                                                         *)
(* One run of the model is one call of one of the three entry points.      *)
(* Text is a sequence of one-character strings, so that lower() and        *)
(* strip() are computed.  Timestamps and averages are exact fractions.     *)
(* A JSON value that may be missing or of the wrong type is a record       *)
(* [t |-> tag, v |-> value] with tag "absent", "null" or the type.         *)
(***************************************************************************)
EXTENDS Integers, Sequences, FiniteSets, TLC

VARIABLES
    entry,               \* which method this run calls
    cfg,                 \* self.frame_interval / max_frames / min_frames
    video,               \* the file: opens, total_frames, fps, readable
    has_callback,        \* progress_callback is not None
    pc,                  \* position in the call
    cap,                 \* decoder handle: "none", "open", "released"
    frame_interval,      \* extract_frames local (effective interval)
    expected_frames,     \* extract_frames local
    frame_count,         \* extract_frames local
    extracted_count,     \* extract_frames local
    frames,              \* extract_frames local / analyze local: <<timestamp, frame_number>>
    progress,            \* values delivered to progress_callback, in order
    idx,                 \* analyze loop: frames processed so far
    frame_results,       \* what ai_analyzer returned for each processed frame
    classifier_failed,   \* per processed frame: the classifier call failed
    calls,               \* frame_number of the frame of each ai_analyzer call, in order
    all_detections,      \* analyze local / argument of _create_defect_timeline
    frame_analyses,      \* analyze local
    non_property_frames, \* analyze local
    t_idx,               \* _create_defect_timeline loop: detections folded so far
    timeline,            \* _create_defect_timeline local: key -> entry
    placed,              \* per folded detection: the key it was filed under
    result,              \* the dict analyze_video_with_ai returned
    exc,                 \* the exception that left the call ("" if none)
    session,             \* app.py: st.session_state, each value named by the run that wrote it
    app_pc,              \* app.py: position of the script in the Analyze handlers
    temp_file,           \* app.py: the file written by save_uploaded_video
    runs                 \* app.py: the Analyze clicks of the session, kind and outcome

sampler_vars == <<cap, frame_interval, expected_frames, frame_count, extracted_count,
                  frames, progress>>
analyze_vars == <<idx, frame_results, classifier_failed, calls, frame_analyses,
                  non_property_frames, result>>
timeline_vars == <<t_idx, timeline, placed>>
app_vars == <<session, app_pc, temp_file, runs>>
env_vars == <<entry, cfg, video, has_callback, app_vars>>
vars == <<entry, cfg, video, has_callback, pc, cap, frame_interval, expected_frames,
          frame_count, extracted_count, frames, progress, idx, frame_results,
          classifier_failed, calls, all_detections, frame_analyses, non_property_frames,
          t_idx, timeline, placed, result, exc, session, app_pc, temp_file, runs>>

-----------------------------------------------------------------------------
(* Bounds of the model *)

MaxT == 6          \* frame counts of the videos of the sampler runs
MaxInterval == 3   \* configured frame_interval ranges over 1..MaxInterval
MaxCap == 3        \* configured max_frames ranges over 1..MaxCap
MaxMin == 3        \* configured min_frames ranges over 1..MaxMin
MaxFps == 2        \* reported frame rate ranges over 0..MaxFps
MaxPipeT == 5      \* frame counts of the videos of the pipeline runs
MaxList == 3       \* length of a detection list handed to _create_defect_timeline
MaxRuns == 2       \* Analyze clicks in one browser session

\* the defaults of VideoProcessor.__init__
DefaultFrameInterval == 30
DefaultMaxFrames == 100
DefaultMinFrames == 10

-----------------------------------------------------------------------------
(* Exact fractions: Python's true division on the small integers used here *)

RECURSIVE GCD(_, _)
GCD(a, b) == IF b = 0 THEN a ELSE GCD(b, a % b)

\* n / d for n >= 0, d > 0, in lowest terms
Ratio(n, d) == LET g == GCD(n, d) IN [num |-> n \div g, den |-> d \div g]

Zero == [num |-> 0, den |-> 1]
One == [num |-> 1, den |-> 1]

RLess(a, b) == a.num * b.den < b.num * a.den
RLeq(a, b) == a.num * b.den <= b.num * a.den
RMax(a, b) == IF RLess(a, b) THEN b ELSE a
RMin(a, b) == IF RLess(b, a) THEN b ELSE a

Min(a, b) == IF a < b THEN a ELSE b
Max(a, b) == IF a > b THEN a ELSE b

-----------------------------------------------------------------------------
(* VideoProcessor.extract_frames *)

\* the interval never shrunk
EffectiveIntervalFixed(total, c) == c.frame_interval

\* the shrunk interval rounded up
EffectiveIntervalCeil(total, c) ==
    IF total < c.min_frames * c.frame_interval
    THEN Max(1, (total + c.min_frames - 1) \div c.min_frames)
    ELSE c.frame_interval

\* lines 57-62: the interval actually used
EffectiveInterval(total, c) ==
    IF total < c.min_frames * c.frame_interval
    THEN Max(1, total \div c.min_frames)
    ELSE c.frame_interval

\* line 65
ExpectedFrames(total, interval, c) == Min(total \div interval, c.max_frames)

\* the timestamp with floor division (// for /)
TimestampWholeSeconds(count, fps) == IF fps > 0 THEN Ratio(count \div fps, 1) ELSE Zero

\* line 85
Timestamp(count, fps) == IF fps > 0 THEN Ratio(count, fps) ELSE Zero

\* the sampling grid entered at the end of each stride
IsSampledAtStrideEnd(count, interval) == count % interval = interval - 1

\* line 77
IsSampled(count, interval) == count % interval = 0

\* the cap compared with <= for <
LoopGuardInclusive(count, c) == count <= c.max_frames

\* line 70 (cap.isOpened() is the handle state)
LoopGuard(count, c) == count < c.max_frames

\* lines 92-93
ProgressValue(count, expected) == RMin(Ratio(count, expected), One)

\* a source that does not open answered with the empty list
ExtractOpenFailsReturnsEmpty ==
    /\ pc = "extract"
    /\ ~video.opens
    /\ pc' = "extract_returned"
    /\ UNCHANGED <<env_vars, sampler_vars, analyze_vars, all_detections, timeline_vars,
                   exc>>

\* lines 47-50, 101-102: the source does not open; ValueError, re-raised as Exception
ExtractOpenFails ==
    /\ pc = "extract"
    /\ ~video.opens
    /\ pc' = "raised"
    /\ exc' = "Exception: Error extracting frames: Failed to open video file"
    /\ UNCHANGED <<env_vars, sampler_vars, analyze_vars, all_detections, timeline_vars>>

\* lines 47-68: the source opens; properties read, interval and expectation computed
ExtractOpen ==
    /\ pc = "extract"
    /\ video.opens
    /\ cap' = "open"
    /\ frame_interval' = EffectiveInterval(video.total_frames, cfg)
    /\ expected_frames' = ExpectedFrames(video.total_frames,
                                         EffectiveInterval(video.total_frames, cfg), cfg)
    /\ frame_count' = 0
    /\ extracted_count' = 0
    /\ frames' = <<>>
    /\ pc' = "extract_loop"
    /\ UNCHANGED <<env_vars, progress, analyze_vars, all_detections, timeline_vars, exc>>

\* lines 70-74, 97-99: cap.read() finds the source exhausted; release and return
ExtractExhausted ==
    /\ pc = "extract_loop"
    /\ cap = "open"
    /\ LoopGuard(extracted_count, cfg)
    /\ ~(frame_count < video.readable)
    /\ cap' = "released"
    /\ pc' = "extract_returned"
    /\ UNCHANGED <<env_vars, frame_interval, expected_frames, frame_count,
                   extracted_count, frames, progress, analyze_vars, all_detections,
                   timeline_vars, exc>>

\* lines 70-77, 95: a frame is read and is not on the sampling grid
ExtractSkip ==
    /\ pc = "extract_loop"
    /\ cap = "open"
    /\ LoopGuard(extracted_count, cfg)
    /\ frame_count < video.readable
    /\ ~IsSampled(frame_count, frame_interval)
    /\ frame_count' = frame_count + 1
    /\ UNCHANGED <<env_vars, pc, cap, frame_interval, expected_frames, extracted_count,
                   frames, progress, analyze_vars, all_detections, timeline_vars, exc>>

\* lines 70-95: a frame is read, converted, appended and reported
ExtractEmit ==
    /\ pc = "extract_loop"
    /\ cap = "open"
    /\ LoopGuard(extracted_count, cfg)
    /\ frame_count < video.readable
    /\ IsSampled(frame_count, frame_interval)
    /\ frames' = Append(frames, [timestamp |-> Timestamp(frame_count, video.fps),
                                 frame_number |-> frame_count])
    /\ extracted_count' = extracted_count + 1
    /\ IF has_callback /\ expected_frames = 0
       THEN \* line 92 divides by zero; wrapped and re-raised at line 102
            /\ pc' = "raised"
            /\ exc' = "Exception: Error extracting frames: division by zero"
            /\ UNCHANGED <<frame_count, progress>>
       ELSE /\ progress' = IF has_callback
                           THEN Append(progress,
                                       ProgressValue(extracted_count + 1, expected_frames))
                           ELSE progress
            /\ frame_count' = frame_count + 1
            /\ UNCHANGED <<pc, exc>>
    /\ UNCHANGED <<env_vars, cap, frame_interval, expected_frames, analyze_vars,
                   all_detections, timeline_vars>>

\* lines 79-93, 101-102: the conversion of a sampled frame, or the caller's
\* progress callback, raises; the handler re-raises without releasing the handle
ExtractFrameRaises ==
    /\ pc = "extract_loop"
    /\ cap = "open"
    /\ LoopGuard(extracted_count, cfg)
    /\ frame_count < video.readable
    /\ IsSampled(frame_count, frame_interval)
    /\ pc' = "raised"
    /\ exc' = "Exception: Error extracting frames"
    /\ UNCHANGED <<env_vars, sampler_vars, analyze_vars, all_detections, timeline_vars>>

\* lines 70, 97-99: max_frames frames were extracted; release and return
ExtractCapReached ==
    /\ pc = "extract_loop"
    /\ cap = "open"
    /\ ~LoopGuard(extracted_count, cfg)
    /\ cap' = "released"
    /\ pc' = "extract_returned"
    /\ UNCHANGED <<env_vars, frame_interval, expected_frames, frame_count,
                   extracted_count, frames, progress, analyze_vars, all_detections,
                   timeline_vars, exc>>

ExtractNext ==
    \/ ExtractOpenFails
    \/ ExtractOpen
    \/ ExtractExhausted
    \/ ExtractSkip
    \/ ExtractEmit
    \/ ExtractFrameRaises
    \/ ExtractCapReached

-----------------------------------------------------------------------------
(* Text: str.lower() and str.strip() on sequences of characters *)

UpperCase == <<"A","B","C","D","E","F","G","H","I","J","K","L","M",
               "N","O","P","Q","R","S","T","U","V","W","X","Y","Z">>
LowerCase == <<"a","b","c","d","e","f","g","h","i","j","k","l","m",
               "n","o","p","q","r","s","t","u","v","w","x","y","z">>
Whitespace == {" ", "\t", "\n"}

LowerChar(c) ==
    IF \E i \in DOMAIN UpperCase : UpperCase[i] = c
    THEN LowerCase[CHOOSE i \in DOMAIN UpperCase : UpperCase[i] = c]
    ELSE c

LowerStr(s) == [i \in 1..Len(s) |-> LowerChar(s[i])]

RECURSIVE LStrip(_)
LStrip(s) == IF s # <<>> /\ Head(s) \in Whitespace THEN LStrip(Tail(s)) ELSE s

RECURSIVE RStrip(_)
RStrip(s) ==
    IF s # <<>> /\ s[Len(s)] \in Whitespace THEN RStrip(SubSeq(s, 1, Len(s) - 1)) ELSE s

Strip(s) == RStrip(LStrip(s))

-----------------------------------------------------------------------------
(* JSON values as the code meets them: dict.get(key, default) *)

Str(s) == [t |-> "str", v |-> s]
NullStr == [t |-> "null", v |-> <<>>]
AbsentStr == [t |-> "absent", v |-> <<>>]
Sev(s) == [t |-> "str", v |-> s]
AbsentSev == [t |-> "absent", v |-> ""]
Num(n) == [t |-> "int", v |-> n]
NullNum == [t |-> "null", v |-> 0]
AbsentNum == [t |-> "absent", v |-> 0]
Bool(b) == [t |-> "bool", v |-> b]
AbsentBool == [t |-> "absent", v |-> FALSE]
List(l) == [t |-> "list", v |-> l]
NullList == [t |-> "null", v |-> <<>>]
AbsentList == [t |-> "absent", v |-> <<>>]

\* d.get(key, default): the default only when the key is missing
Get(field, default) == IF field.t = "absent" THEN default ELSE field

Severities == {"critical", "high", "medium", "low"}

-----------------------------------------------------------------------------
(* What the classifier can answer for one frame *)

LblCrackCap == <<"C","r","a","c","k"," ">>
LblCrack == <<"c","r","a","c","k">>
LblMold == <<"m","o","l","d">>
LblUnknown == <<"U","n","k","n","o","w","n">>
LblUnavailable ==
    <<"A","P","I"," ","U","n","a","v","a","i","l","a","b","l","e"," ","-"," ",
      "M","a","n","u","a","l"," ","I","n","s","p","e","c","t","i","o","n"," ",
      "R","e","q","u","i","r","e","d">>

Defect(obj, sev, conf) ==
    [detected_object |-> obj, severity |-> sev, confidence_score |-> conf]

DCrackCap == Defect(Str(LblCrackCap), Sev("high"), Num(80))
DCrack == Defect(Str(LblCrack), Sev("low"), Num(40))
DMoldSevere == Defect(Str(LblMold), Sev("severe"), Num(80))
DMoldNoSev == Defect(Str(LblMold), AbsentSev, Num(40))
DNullLabel == Defect(NullStr, Sev("high"), Num(80))
DNoLabel == Defect(AbsentStr, Sev("medium"), AbsentNum)

\* the defect objects a classifier answer is assembled from
RawDefects == {DCrackCap, DCrack, DMoldSevere, DMoldNoSev, DNullLabel, DNoLabel}

Body(p, score, defects, detections) ==
    [is_property |-> p, overall_condition_score |-> score,
     defects |-> defects, detections |-> detections]

\* the JSON objects the classifier answers with
JsonBodies ==
    {Body(Bool(TRUE), Num(s), List(<<d>>), AbsentList) :
        s \in {0, 80}, d \in {DCrackCap, DCrack}}
    \cup
    {Body(Bool(TRUE), Num(80), List(<<DMoldSevere, DMoldNoSev>>), AbsentList),
     Body(Bool(TRUE), Num(70), List(<<>>), AbsentList),
     Body(Bool(TRUE), Num(75), List(<<DCrack>>), AbsentList),
     Body(Bool(TRUE), Num(80), AbsentList, AbsentList),
     Body(Bool(TRUE), Num(0), List(<<DNoLabel>>), AbsentList),
     Body(Bool(TRUE), NullNum, List(<<DCrack>>), AbsentList),
     Body(Bool(TRUE), Num(80), List(<<DNullLabel>>), AbsentList),
     Body(Bool(TRUE), Num(80), NullList, AbsentList),
     Body(Bool(FALSE), AbsentNum, AbsentList, AbsentList),
     Body(Bool(FALSE), AbsentNum, AbsentList, List(<<DCrackCap>>)),
     Body(AbsentBool, AbsentNum, AbsentList, List(<<DCrack>>))}

\* the outcomes of one external call: the key is missing, the client cannot be
\* built, the call raises, the text is no JSON, the text holds a JSON object among
\* other text, the JSON is no object, the JSON is an object
NoBody == Body(AbsentBool, AbsentNum, AbsentList, AbsentList)

RawAnswers ==
    {[kind |-> k, body |-> NoBody] :
        k \in {"no_key", "client_error", "call_error", "not_json", "not_dict"}}
    \cup {[kind |-> "json", body |-> b] : b \in JsonBodies}
    \cup {[kind |-> "json_in_text",
           body |-> Body(Bool(TRUE), Num(80), List(<<DCrackCap>>), AbsentList)]}

-----------------------------------------------------------------------------
(* analyze_image_with_gemini and get_fallback_analysis *)

\* lines 254-287; np_ok: numpy could convert the image
Fallback(np_ok) ==
    IF np_ok
    THEN Body(Bool(TRUE), Num(70), AbsentList,
              List(<<Defect(Str(LblUnavailable), Sev("medium"), Num(50))>>))
    ELSE Body(Bool(FALSE), AbsentNum, AbsentList, AbsentList)

\* Python truthiness of result.get("is_property", False)
IsPropertyFlag(b) == b.is_property.t = "bool" /\ b.is_property.v

\* lines 201-216: the defects are renamed to detections for a property image
Renamed(b) ==
    IF b.defects.t = "absent"
    THEN [b EXCEPT !.detections = List(<<>>)]
    ELSE [b EXCEPT !.detections = b.defects, !.defects = AbsentList]

\* lines 205-208 iterate the defects and call d.get on each
SummaryRaises(b) == IsPropertyFlag(b) /\ b.defects.t = "null"

\* the call did not produce an answer: lines 38, 46, 236, 251 hand the frame to
\* get_fallback_analysis (line 232 returns the object found in the text instead)
CallFailed(raw) ==
    \/ raw.kind \in {"no_key", "client_error", "call_error", "not_json", "not_dict"}
    \/ raw.kind = "json" /\ SummaryRaises(raw.body)

\* lines 22-251
AnalyzeImage(raw, np_ok) ==
    CASE raw.kind \in {"no_key", "client_error"} -> Fallback(np_ok)
      [] raw.kind \in {"call_error", "not_dict"} -> Fallback(np_ok)
      [] raw.kind = "not_json" -> Fallback(np_ok)
      [] raw.kind = "json_in_text" -> raw.body
      [] raw.kind = "json" ->
            IF SummaryRaises(raw.body) THEN Fallback(np_ok)
            ELSE IF IsPropertyFlag(raw.body) THEN Renamed(raw.body)
            ELSE raw.body

-----------------------------------------------------------------------------
(* VideoProcessor.analyze_video_with_ai *)

\* a result without the flag taken for a non-property frame
NotPropertyDefaultFalse(analysis) ==
    LET p == Get(analysis.is_property, Bool(FALSE)) IN ~p.v

\* line 220: not analysis.get('is_property', True)
NotProperty(analysis) ==
    LET p == Get(analysis.is_property, Bool(TRUE)) IN ~p.v

\* lines 238-241
Tagged(d, frame) ==
    [detected_object |-> d.detected_object, severity |-> d.severity,
     confidence_score |-> d.confidence_score,
     frame_number |-> frame.frame_number, timestamp |-> frame.timestamp]

\* lines 225-232
FrameAnalysis(analysis, frame) ==
    [frame_number |-> frame.frame_number, timestamp |-> frame.timestamp,
     detections |-> Get(analysis.detections, List(<<>>)).v,
     overall_score |-> Get(analysis.overall_condition_score, Num(0))]

\* the non-property check left out
SkipFrameNever(analysis) == FALSE

\* line 220: a frame that is no property image is counted and dropped
SkipFrame(analysis) == NotProperty(analysis)

\* lines 196-203: the call starts by extracting the frames
AnalyzeNoFrames ==
    /\ pc = "extract_returned"
    /\ entry = "analyze_video_with_ai"
    /\ frames = <<>>
    /\ result' = [shape |-> "failure", success |-> FALSE,
                  error |-> "No frames could be extracted from video",
                  frames_analyzed |-> 0]
    /\ pc' = "returned"
    /\ UNCHANGED <<env_vars, sampler_vars, idx, frame_results, classifier_failed, calls,
                   frame_analyses, non_property_frames, all_detections,
                   timeline_vars, exc>>

\* lines 205-210
AnalyzeStart ==
    /\ pc = "extract_returned"
    /\ entry = "analyze_video_with_ai"
    /\ frames # <<>>
    /\ pc' = "analyze_loop"
    /\ UNCHANGED <<env_vars, sampler_vars, analyze_vars, all_detections,
                   timeline_vars, exc>>

\* every iteration handed the first frame of the list
LoopFrameFirst(fs, i) == fs[1]

\* line 212: enumerate(frames) at 0-based position i
LoopFrame(fs, i) == fs[i + 1]

\* a frame's detections appended last first
ExtendedReversed(all, dets, frame) ==
    all \o [i \in 1..Len(dets) |-> Tagged(dets[Len(dets) + 1 - i], frame)]

\* lines 236-241: the frame's detections, tagged, appended in their order
Extended(all, dets, frame) ==
    all \o [i \in 1..Len(dets) |-> Tagged(dets[i], frame)]

\* lines 212-242: one iteration, the classifier call included
AnalyzeFrame ==
    /\ pc = "analyze_loop"
    /\ idx < Len(frames)
    /\ \E raw \in RawAnswers, np_ok \in BOOLEAN :
        LET frame == LoopFrame(frames, idx)
            analysis == AnalyzeImage(raw, np_ok)
            dets == Get(analysis.detections, List(<<>>))
        IN  /\ progress' = IF has_callback
                           THEN Append(progress, Ratio(idx + 1, Len(frames)))
                           ELSE progress
            /\ frame_results' = Append(frame_results, analysis)
            /\ classifier_failed' = Append(classifier_failed, CallFailed(raw))
            /\ calls' = Append(calls, frame.frame_number)
            /\ idx' = idx + 1
            /\ IF SkipFrame(analysis)
               THEN /\ non_property_frames' = non_property_frames + 1
                    /\ UNCHANGED <<frame_analyses, all_detections, pc, exc>>
               ELSE /\ non_property_frames' = non_property_frames
                    /\ frame_analyses' =
                           Append(frame_analyses, FrameAnalysis(analysis, frame))
                    /\ all_detections' = Extended(all_detections, dets.v, frame)
                    /\ UNCHANGED <<pc, exc>>
    /\ UNCHANGED <<env_vars, cap, frame_interval, expected_frames, frame_count,
                   extracted_count, frames, timeline_vars, result>>

SeverityCount(dets, s) ==
    Cardinality({i \in 1..Len(dets) :
                    dets[i].severity.t = "str" /\ dets[i].severity.v = s})

\* lines 258-263
SeverityCounts(dets) ==
    [s \in Severities |-> SeverityCount(dets, s)]

RECURSIVE SumSeq(_)
SumSeq(s) == IF s = <<>> THEN 0 ELSE Head(s) + SumSeq(Tail(s))

\* the scores of all the frames, the zero scores included
ScoresUnfiltered(analyses) ==
    [i \in 1..Len(analyses) |-> analyses[i].overall_score.v]

\* line 266
Scores(analyses) ==
    LET keep == SelectSeq(analyses, LAMBDA f : f.overall_score.v > 0)
    IN  [i \in 1..Len(keep) |-> keep[i].overall_score.v]

\* lines 267, 283: int(sum / len), or 0 when nothing scored
AverageScore(analyses) ==
    LET scores == Scores(analyses)
    IN  IF scores # <<>> THEN SumSeq(scores) \div Len(scores) ELSE 0

\* line 266 compares each overall_score with 0
ScoreRaises(analyses) ==
    \E i \in 1..Len(analyses) : analyses[i].overall_score.t # "int"

\* the early return reporting the average the later lines would compute
NoDefectsResultComputed(n, skipped, analyses) ==
    [shape |-> "no_defects", success |-> TRUE,
     frames_analyzed |-> n,
     non_property_frames |-> skipped,
     total_defects |-> 0,
     frame_analyses |-> <<>>,
     defect_summary |-> [s \in Severities |-> 0],
     average_score |-> AverageScore(analyses),
     message |-> "No defects detected in video"]

\* lines 246-255: the result returned when nothing was detected
NoDefectsResult(n, skipped, analyses) ==
    [shape |-> "no_defects", success |-> TRUE,
     frames_analyzed |-> n,
     non_property_frames |-> skipped,
     total_defects |-> 0,
     frame_analyses |-> <<>>,
     defect_summary |-> [s \in Severities |-> 0],
     average_score |-> 100,
     message |-> "No defects detected in video"]

\* lines 245-255: nothing was detected
AnalyzeNoDefects ==
    /\ pc = "analyze_loop"
    /\ idx = Len(frames)
    /\ all_detections = <<>>
    /\ result' = NoDefectsResult(Len(frames), non_property_frames, frame_analyses)
    /\ pc' = "returned"
    /\ UNCHANGED <<env_vars, sampler_vars, idx, frame_results, classifier_failed, calls,
                   frame_analyses, non_property_frames, all_detections,
                   timeline_vars, exc>>

\* lines 257-270: the statistics, then the call of _create_defect_timeline
AnalyzeAggregate ==
    /\ pc = "analyze_loop"
    /\ idx = Len(frames)
    /\ all_detections # <<>>
    /\ IF ScoreRaises(frame_analyses)
       THEN /\ pc' = "raised"
            /\ exc' = "TypeError"
       ELSE /\ pc' = "timeline_loop"
            /\ exc' = exc
    /\ UNCHANGED <<env_vars, sampler_vars, analyze_vars, all_detections, timeline_vars>>

-----------------------------------------------------------------------------
(* VideoProcessor._create_defect_timeline *)

\* the key lowercased but not stripped
DefectKeyNoStrip(label) == LowerStr(label)

\* lines 300-303
DefectKey(label) == Strip(LowerStr(label))

\* line 308
EntrySeverity(d) == Get(d.severity, Sev("medium")).v

\* lines 306-314
NewEntry(d, label) ==
    [defect_type |-> label,
     severity |-> EntrySeverity(d),
     occurrences |-> <<>>,
     first_seen |-> d.timestamp,
     last_seen |-> d.timestamp,
     frame_count |-> 0,
     avg_confidence |-> Zero]

\* lines 317-324
Occurrence(d) ==
    [timestamp |-> d.timestamp, frame_number |-> d.frame_number,
     confidence |-> Get(d.confidence_score, Num(0)).v]

\* the entry taking the severity of each detection folded into it
UpdatedSeverity(e, d) ==
    [e EXCEPT !.occurrences = Append(@, Occurrence(d)),
              !.last_seen = RMax(@, d.timestamp),
              !.severity = EntrySeverity(d),
              !.frame_count = @ + 1]

\* last_seen overwritten with the latest timestamp instead of the maximum
UpdatedLatest(e, d) ==
    [e EXCEPT !.occurrences = Append(@, Occurrence(d)),
              !.last_seen = d.timestamp,
              !.frame_count = @ + 1]

\* lines 317-331
Updated(e, d) ==
    [e EXCEPT !.occurrences = Append(@, Occurrence(d)),
              !.last_seen = RMax(@, d.timestamp),
              !.frame_count = @ + 1]

\* lines 299-331: one iteration
TimelineStep ==
    /\ pc = "timeline_loop"
    /\ t_idx < Len(all_detections)
    /\ LET d == all_detections[t_idx + 1]
           label == Get(d.detected_object, Str(LblUnknown))
       IN  IF label.t # "str"
           THEN \* line 303: the label has no lower()
                /\ pc' = "raised"
                /\ exc' = "AttributeError"
                /\ UNCHANGED timeline_vars
           ELSE LET key == DefectKey(label.v)
                    e == IF key \in DOMAIN timeline THEN timeline[key]
                         ELSE NewEntry(d, label.v)
                IN  /\ timeline' = [k \in DOMAIN timeline \cup {key} |->
                                       IF k = key THEN Updated(e, d) ELSE timeline[k]]
                    /\ placed' = Append(placed, key)
                    /\ t_idx' = t_idx + 1
                    /\ UNCHANGED <<pc, exc>>
    /\ UNCHANGED <<env_vars, sampler_vars, analyze_vars, all_detections>>

\* the mean taken with floor division
AvgConfidenceWhole(e) ==
    LET confidences == [i \in 1..Len(e.occurrences) |-> e.occurrences[i].confidence]
    IN  IF confidences # <<>> THEN Ratio(SumSeq(confidences) \div Len(confidences), 1)
        ELSE Zero

\* lines 333-337
AvgConfidence(e) ==
    LET confidences == [i \in 1..Len(e.occurrences) |-> e.occurrences[i].confidence]
    IN  IF confidences # <<>> THEN Ratio(SumSeq(confidences), Len(confidences))
        ELSE Zero

WithAverages(tl) == [k \in DOMAIN tl |-> [tl[k] EXCEPT !.avg_confidence = AvgConfidence(tl[k])]]

\* lines 272-285
FullResult(tl) ==
    [shape |-> "full", success |-> TRUE,
     frames_analyzed |-> Len(frames),
     non_property_frames |-> non_property_frames,
     property_frames |-> Len(frame_analyses),
     total_defects |-> Len(all_detections),
     unique_defect_types |-> Cardinality(DOMAIN tl),
     frame_analyses |-> frame_analyses,
     all_detections |-> all_detections,
     defect_timeline |-> tl,
     defect_summary |-> SeverityCounts(all_detections),
     average_score |-> AverageScore(frame_analyses),
     frames_with_defects |->
         Cardinality({i \in 1..Len(frame_analyses) :
                         Len(frame_analyses[i].detections) > 0})]

\* lines 333-339, and for analyze_video_with_ai lines 272-285
TimelineReturn ==
    /\ pc = "timeline_loop"
    /\ t_idx = Len(all_detections)
    /\ timeline' = WithAverages(timeline)
    /\ result' = IF entry = "analyze_video_with_ai"
                 THEN FullResult(WithAverages(timeline))
                 ELSE result
    /\ pc' = "returned"
    /\ UNCHANGED <<env_vars, sampler_vars, idx, frame_results, classifier_failed, calls,
                   frame_analyses, non_property_frames, all_detections, t_idx,
                   placed, exc>>

AnalyzeNext ==
    \/ AnalyzeNoFrames
    \/ AnalyzeStart
    \/ AnalyzeFrame
    \/ AnalyzeNoDefects
    \/ AnalyzeAggregate

TimelineNext ==
    \/ TimelineStep
    \/ TimelineReturn

-----------------------------------------------------------------------------
(* Initial states *)

NoResult == [shape |-> "none"]

\* app.py lines 31-53: st.session_state of a new browser session; a stored value
\* is named by the number of the run that wrote it, 0 for the initial empty value
InitialSession ==
    [stored_images |-> 0, stored_defects |-> 0, stored_property_data |-> 0,
     show_pdf_button |-> FALSE, current_property_id |-> 0,
     video_analysis_complete |-> FALSE, video_analysis_results |-> 0,
     video_key_frames |-> 0, video_info |-> 0]

\* the state before the first statement of the called method
BlankCall ==
    /\ cap = "none"
    /\ frame_interval = 0
    /\ expected_frames = 0
    /\ frame_count = 0
    /\ extracted_count = 0
    /\ frames = <<>>
    /\ progress = <<>>
    /\ idx = 0
    /\ frame_results = <<>>
    /\ classifier_failed = <<>>
    /\ calls = <<>>
    /\ frame_analyses = <<>>
    /\ non_property_frames = 0
    /\ t_idx = 0
    /\ timeline = <<>>
    /\ placed = <<>>
    /\ result = NoResult
    /\ exc = ""

\* a library method called on its own, outside the Streamlit script
Blank ==
    /\ BlankCall
    /\ session = InitialSession
    /\ app_pc = "none"
    /\ temp_file = "none"
    /\ runs = <<>>

\* extract_frames called on its own, over every small configuration and video.
\* A file reports total_frames; cap.read() succeeds `readable` times.
SmallRuns ==
    {[cfg |-> c, video |-> v] :
        c \in [frame_interval : 1..MaxInterval, max_frames : 1..MaxCap,
               min_frames : 1..MaxMin],
        v \in {w \in [opens : BOOLEAN, total_frames : 0..MaxT, fps : -1..MaxFps,
                      readable : 0..MaxT] :
                  ~w.opens => w.total_frames = 0 /\ w.readable = 0 /\ w.fps = 0}}

\* VideoProcessor() as constructed with no arguments, on a 30 fps file of
\* one second and of ten seconds
DefaultRuns ==
    {[cfg |-> [frame_interval |-> DefaultFrameInterval, max_frames |-> DefaultMaxFrames,
               min_frames |-> DefaultMinFrames],
      video |-> [opens |-> TRUE, total_frames |-> t, fps |-> 30, readable |-> t]] :
        t \in {30, 300}}

SamplerInit ==
    /\ entry = "extract_frames"
    /\ \E r \in SmallRuns \cup DefaultRuns : cfg = r.cfg /\ video = r.video
    /\ has_callback \in BOOLEAN
    /\ pc = "extract"
    /\ all_detections = <<>>
    /\ Blank

SamplerSpec == SamplerInit /\ [][ExtractNext]_vars

\* the interpreter keeps executing the loop
SamplerFairSpec == SamplerInit /\ [][ExtractNext]_vars /\ WF_vars(ExtractNext)

\* analyze_video_with_ai called with analyze_image_with_gemini as the analyzer
\* and a progress callback, as the application does
Init ==
    /\ entry = "analyze_video_with_ai"
    /\ cfg = [frame_interval |-> 2, max_frames |-> MaxCap, min_frames |-> 1]
    /\ video \in [opens : BOOLEAN, total_frames : 0..MaxPipeT, fps : {0, 2},
                  readable : 0..MaxPipeT]
    /\ video.readable = video.total_frames
    /\ (video.fps = 0 <=> ~video.opens)
    /\ (~video.opens => video.total_frames = 0)
    /\ has_callback = TRUE
    /\ pc = "extract"
    /\ all_detections = <<>>
    /\ Blank

Next == ExtractNext \/ AnalyzeNext \/ TimelineNext

Spec == Init /\ [][Next]_vars

\* the detections a list handed to _create_defect_timeline is made of
StampedDefects ==
    {Tagged(d, [frame_number |-> f, timestamp |-> Ratio(f, 1)]) :
        d \in RawDefects, f \in {0, 1}}

RECURSIVE SeqsUpTo(_, _)
SeqsUpTo(S, n) ==
    IF n = 0 THEN {<<>>}
    ELSE LET shorter == SeqsUpTo(S, n - 1)
         IN  shorter \cup {Append(s, x) : s \in {t \in shorter : Len(t) = n - 1}, x \in S}

\* _create_defect_timeline called with any detection list
TimelineInit ==
    /\ entry = "_create_defect_timeline"
    /\ cfg = [frame_interval |-> 1, max_frames |-> 1, min_frames |-> 1]
    /\ video = [opens |-> FALSE, total_frames |-> 0, fps |-> 0, readable |-> 0]
    /\ has_callback = FALSE
    /\ pc = "timeline_loop"
    /\ all_detections \in SeqsUpTo(StampedDefects, MaxList)
    /\ Blank

TimelineSpec == TimelineInit /\ [][TimelineNext]_vars

-----------------------------------------------------------------------------
(* app.py: the two Analyze handlers of one Streamlit session *)

\* the locals of a finished or not yet started call
BlankSampler ==
    /\ cap' = "none"
    /\ frame_interval' = 0
    /\ expected_frames' = 0
    /\ frame_count' = 0
    /\ extracted_count' = 0
    /\ frames' = <<>>
    /\ progress' = <<>>

BlankAnalysis ==
    /\ idx' = 0
    /\ frame_results' = <<>>
    /\ classifier_failed' = <<>>
    /\ calls' = <<>>
    /\ frame_analyses' = <<>>
    /\ non_property_frames' = 0
    /\ all_detections' = <<>>
    /\ t_idx' = 0
    /\ timeline' = <<>>
    /\ placed' = <<>>
    /\ exc' = ""

\* the settings of the two sliders and the uploaded file, scaled down: a file cut
\* at the cap, a file read to its end, a file without frame count in its header,
\* a file without readable frame, a file that does not open
Uploads ==
    {[cfg |-> [frame_interval |-> 2, max_frames |-> 1, min_frames |-> 1],
      video |-> [opens |-> TRUE, total_frames |-> 2, fps |-> 2, readable |-> 2]],
     [cfg |-> [frame_interval |-> 2, max_frames |-> 2, min_frames |-> 1],
      video |-> [opens |-> TRUE, total_frames |-> 2, fps |-> 2, readable |-> 2]],
     [cfg |-> [frame_interval |-> 2, max_frames |-> 2, min_frames |-> 1],
      video |-> [opens |-> TRUE, total_frames |-> 0, fps |-> 0, readable |-> 1]],
     [cfg |-> [frame_interval |-> 2, max_frames |-> 2, min_frames |-> 1],
      video |-> [opens |-> TRUE, total_frames |-> 2, fps |-> 2, readable |-> 0]],
     [cfg |-> [frame_interval |-> 2, max_frames |-> 2, min_frames |-> 1],
      video |-> [opens |-> FALSE, total_frames |-> 0, fps |-> 0, readable |-> 0]]}

ThisRun == Len(runs)

Ended(outcome) == [runs EXCEPT ![Len(runs)].outcome = outcome]

\* the file left where it is
CleanedUpKept(file) == file

\* video_processor.py lines 378-389: an existing file is unlinked, a missing one
\* left alone (a refusal of the file system is outside the model)
CleanedUp(file) == IF file = "saved" THEN "deleted" ELSE file

\* app.py lines 846-863
SessionAfterImage(s, n) ==
    [s EXCEPT !.stored_property_data = n, !.stored_defects = n,
              !.stored_images = n, !.show_pdf_button = TRUE,
              !.current_property_id = n]

\* app.py lines 1181-1182
SessionAfterAnalysis(s, n) ==
    [s EXCEPT !.video_analysis_results = n, !.video_analysis_complete = TRUE]

\* app.py lines 1254-1256
SessionAfterKeyFrames(s, n) ==
    [s EXCEPT !.video_key_frames = n, !.current_property_id = n,
              !.show_pdf_button = TRUE]

\* app.py line 990
ImagePdfSection(s) ==
    s.show_pdf_button /\ s.stored_property_data # 0 /\ ~s.video_analysis_complete

\* app.py line 1318
VideoPdfSection(s) == s.show_pdf_button /\ s.video_analysis_complete

\* app.py lines 736-986: the image Analyze handler, from click to the end of the run
ImageAnalyze ==
    /\ app_pc = "idle"
    /\ Len(runs) < MaxRuns
    /\ \E outcome \in {"findings", "no_findings", "exception"} :
          /\ runs' = Append(runs, [kind |-> "image", outcome |-> outcome])
          /\ session' = IF outcome = "findings"
                        THEN SessionAfterImage(session, Len(runs) + 1)
                        ELSE session
    /\ UNCHANGED <<entry, cfg, video, has_callback, pc, sampler_vars, analyze_vars,
                   all_detections, timeline_vars, exc, app_pc, temp_file>>

\* app.py lines 1128-1170: the upload saved, get_video_info, the pipeline called
VideoAnalyzeClicked ==
    /\ app_pc = "idle"
    /\ Len(runs) < MaxRuns
    /\ runs' = Append(runs, [kind |-> "video", outcome |-> "running"])
    /\ temp_file' = "saved"
    /\ \E u \in Uploads :
          /\ cfg' = u.cfg
          /\ video' = u.video
          /\ IF u.video.opens
             THEN /\ session' = [session EXCEPT !.video_info = Len(runs) + 1]
                  /\ app_pc' = "analyzing"
                  /\ pc' = "extract"
             ELSE \* get_video_info raises
                  /\ session' = session
                  /\ app_pc' = "except"
                  /\ pc' = "idle"
    /\ entry' = "analyze_video_with_ai"
    /\ has_callback' = TRUE
    /\ BlankSampler
    /\ BlankAnalysis
    /\ result' = NoResult

\* app.py lines 1309-1315: the handler's except branch; the locals are gone
\* when the run ends
VideoExcept ==
    /\ \/ app_pc = "except"
       \/ app_pc \in {"analyzing", "reextract"} /\ pc = "raised"
    /\ temp_file' = CleanedUp(temp_file)
    /\ runs' = Ended("exception")
    /\ app_pc' = "idle"
    /\ pc' = "idle"
    /\ BlankSampler
    /\ BlankAnalysis
    /\ result' = NoResult
    /\ UNCHANGED <<entry, cfg, video, has_callback, session>>

\* app.py lines 1175-1178: the result says success = false
VideoAnalysisFailed ==
    /\ app_pc = "analyzing"
    /\ pc = "returned"
    /\ result.shape = "failure"
    /\ temp_file' = CleanedUp(temp_file)
    /\ runs' = Ended("failed")
    /\ app_pc' = "idle"
    /\ pc' = "idle"
    /\ BlankSampler
    /\ BlankAnalysis
    /\ result' = NoResult
    /\ UNCHANGED <<entry, cfg, video, has_callback, session>>

\* app.py lines 1180-1182: the results stored; of analysis_results the handler's
\* later steps depend on its keys only
VideoStoreResults ==
    /\ app_pc = "analyzing"
    /\ pc = "returned"
    /\ result.shape \in {"no_defects", "full"}
    /\ session' = SessionAfterAnalysis(session, ThisRun)
    /\ app_pc' = "persist"
    /\ pc' = "idle"
    /\ BlankSampler
    /\ BlankAnalysis
    /\ result' = [shape |-> result.shape]
    /\ UNCHANGED <<entry, cfg, video, has_callback, temp_file, runs>>

\* app.py lines 1184-1244: the rows written and committed, stored_property_data
\* set, extract_frames called again; or a statement of the block raises
VideoPersist ==
    /\ app_pc = "persist"
    /\ \E ok \in BOOLEAN :
          IF ok
          THEN /\ session' = [session EXCEPT !.stored_property_data = ThisRun]
               /\ app_pc' = "reextract"
               /\ entry' = "extract_frames"
               /\ has_callback' = FALSE
               /\ pc' = "extract"
          ELSE /\ app_pc' = "except"
               /\ UNCHANGED <<session, entry, has_callback, pc>>
    /\ UNCHANGED <<cfg, video, sampler_vars, analyze_vars, all_detections,
                   timeline_vars, exc, temp_file, runs>>

\* app.py lines 1246-1259: the key frames kept, the section enabled, the file removed
VideoKeyFrames ==
    /\ app_pc = "reextract"
    /\ pc = "extract_returned"
    /\ session' = SessionAfterKeyFrames(session, ThisRun)
    /\ temp_file' = CleanedUp(temp_file)
    /\ app_pc' = "display"
    /\ pc' = "idle"
    /\ BlankSampler
    /\ UNCHANGED <<entry, cfg, video, has_callback, analyze_vars, all_detections,
                   timeline_vars, exc, runs>>

\* app.py lines 1261-1307: the metrics read from analysis_results, then st.rerun();
\* the result of lines 246-255 has no 'unique_defect_types' (KeyError, line 1283)
VideoDisplay ==
    /\ app_pc = "display"
    /\ IF result.shape = "no_defects"
       THEN /\ app_pc' = "except"
            /\ UNCHANGED <<runs, result>>
       ELSE /\ app_pc' = "idle"
            /\ runs' = Ended("complete")
            /\ result' = NoResult
    /\ UNCHANGED <<entry, cfg, video, has_callback, pc, sampler_vars, idx,
                   frame_results, classifier_failed, calls, frame_analyses,
                   non_property_frames, all_detections, timeline_vars, exc,
                   session, temp_file>>

\* the library code runs while the handler waits for it
InPipeline == app_pc \in {"analyzing", "reextract"}

AppNext ==
    \/ ImageAnalyze
    \/ VideoAnalyzeClicked
    \/ VideoExcept
    \/ VideoAnalysisFailed
    \/ VideoStoreResults
    \/ VideoPersist
    \/ VideoKeyFrames
    \/ VideoDisplay
    \/ InPipeline /\ ExtractNext
    \/ InPipeline /\ AnalyzeNext
    \/ InPipeline /\ TimelineNext

\* a new browser session; no handler has run
AppInit ==
    /\ entry = "app"
    /\ cfg = [frame_interval |-> 2, max_frames |-> 2, min_frames |-> 1]
    /\ video = [opens |-> FALSE, total_frames |-> 0, fps |-> 0, readable |-> 0]
    /\ has_callback = FALSE
    /\ pc = "idle"
    /\ all_detections = <<>>
    /\ BlankCall
    /\ session = InitialSession
    /\ app_pc = "idle"
    /\ temp_file = "none"
    /\ runs = <<>>

AppSpec == AppInit /\ [][AppNext]_vars

-----------------------------------------------------------------------------
(* Properties of extract_frames *)

CeilDiv(a, b) == (a + b - 1) \div b

ExtractEnded == pc \in {"extract_returned", "raised"}

C5_TerminatesWithinCap ==
    /\ <>ExtractEnded
    /\ [](extracted_count <= cfg.max_frames /\ Len(frames) <= cfg.max_frames)
    /\ [](pc = "extract_returned" =>
             \/ frame_count = video.readable
             \/ extracted_count = cfg.max_frames)

\* the cap stopped the extraction before the source was exhausted
C5_Witness ==
    /\ pc = "extract_returned"
    /\ extracted_count = cfg.max_frames
    /\ frame_count < video.readable
    /\ Len(frames) >= 2

\* C6 as stated: consecutive frames have strictly increasing frame_index and
\* strictly increasing timestamp, whatever frame rate the source reports.
C6_StrictlyIncreasing ==
    \A i \in 1..(Len(frames) - 1) :
        /\ frames[i + 1].frame_number > frames[i].frame_number
        /\ RLess(frames[i].timestamp, frames[i + 1].timestamp)

\* C6 amended: frame_index strictly increases; the timestamp strictly increases
\* when the reported frame rate is positive, and is 0 for every frame otherwise.
C6_IncreasingWhenFpsPositive ==
    \A i \in 1..(Len(frames) - 1) :
        /\ frames[i + 1].frame_number > frames[i].frame_number
        /\ video.fps > 0 => RLess(frames[i].timestamp, frames[i + 1].timestamp)
        /\ video.fps <= 0 => frames[i].timestamp = Zero /\ frames[i + 1].timestamp = Zero

\* three frames of a video with a positive frame rate, one at a fractional second
C6_Witness ==
    /\ pc = "extract_returned"
    /\ video.fps > 0
    /\ Len(frames) >= 3
    /\ \E i \in 1..Len(frames) : frames[i].timestamp.den > 1

-----------------------------------------------------------------------------
(* Properties of _create_defect_timeline *)

\* the claim's normalisation: trimmed, then lowercased
NormalizedText(s) == LowerStr(Strip(s))

HasLabel(d) == d.detected_object.t = "str"

\* C7: two folded detections with a detected_object string are filed under the same
\* timeline entry if and only if their strings are equal after lowercasing and trimming.
C7_SameEntryIffSameNormalizedText ==
    \A i, j \in 1..Len(placed) :
        (HasLabel(all_detections[i]) /\ HasLabel(all_detections[j])) =>
            ((placed[i] = placed[j]) <=>
                (NormalizedText(all_detections[i].detected_object.v)
                    = NormalizedText(all_detections[j].detected_object.v)))

\* two differently written labels merged, a third label kept apart
C7_Witness ==
    /\ pc = "returned"
    /\ entry = "_create_defect_timeline"
    /\ \E i, j, k \in 1..Len(placed) :
        /\ HasLabel(all_detections[i]) /\ HasLabel(all_detections[j])
        /\ HasLabel(all_detections[k])
        /\ all_detections[i].detected_object # all_detections[j].detected_object
        /\ placed[i] = placed[j]
        /\ placed[k] # placed[i]
        /\ Len(timeline[placed[i]].occurrences) = 2

\* C8: in every timeline entry first_seen <= last_seen, and each of the two is the
\* timestamp of one of the entry's own occurrences.
C8_SeenWithinOccurrences ==
    \A k \in DOMAIN timeline :
        LET e == timeline[k]
        IN  /\ RLeq(e.first_seen, e.last_seen)
            /\ \E i \in 1..Len(e.occurrences) : e.occurrences[i].timestamp = e.first_seen
            /\ \E i \in 1..Len(e.occurrences) : e.occurrences[i].timestamp = e.last_seen

\* an entry whose occurrences arrived with decreasing timestamps
C8_Witness ==
    /\ pc = "returned"
    /\ \E k \in DOMAIN timeline :
        LET e == timeline[k]
        IN  /\ Len(e.occurrences) >= 2
            /\ RLess(e.occurrences[2].timestamp, e.occurrences[1].timestamp)

-----------------------------------------------------------------------------
(* Properties of analyze_video_with_ai *)

Analyzing == entry = "analyze_video_with_ai"

\* the frame result says the frame is no property image
SaysNotProperty(a) == a.is_property.t = "bool" /\ a.is_property.v = FALSE

Carried(a) == a.detections.v \o a.defects.v

\* frame numbers of the processed frames whose result says "not a property image"
NonPropertyFrameNumbers ==
    {frames[i].frame_number :
        i \in {n \in 1..Len(frame_results) : SaysNotProperty(frame_results[n])}}

\* C1 as stated: when the source cannot be opened, analyze_video_with_ai ends by
\* returning a result with success = false and an error message.
C1_OpenFailureReturnsFailure ==
    (Analyzing /\ ~video.opens /\ pc \in {"returned", "raised"}) =>
        /\ pc = "returned"
        /\ result.shape = "failure"
        /\ result.success = FALSE
        /\ result.error # ""

\* C2 as stated: whatever the classifier does on a frame, analyze_video_with_ai
\* goes on to the remaining frames and returns: once a frame has been handed to
\* the classifier, the call never ends with an exception.
C2_ClassifierNeverAborts ==
    (Analyzing /\ pc = "raised") => frame_results = <<>>

\* C3: no detection of a frame whose result says "not a property image" is in
\* all_detections, in frame_analyses or in an occurrence of the timeline, nor in
\* the returned result.
C3_NonPropertyExcluded ==
    /\ \A i \in 1..Len(all_detections) :
          all_detections[i].frame_number \notin NonPropertyFrameNumbers
    /\ \A i \in 1..Len(frame_analyses) :
          frame_analyses[i].frame_number \notin NonPropertyFrameNumbers
    /\ \A k \in DOMAIN timeline : \A i \in 1..Len(timeline[k].occurrences) :
          timeline[k].occurrences[i].frame_number \notin NonPropertyFrameNumbers
    /\ result.shape = "full" =>
          /\ \A i \in 1..Len(result.all_detections) :
                result.all_detections[i].frame_number \notin NonPropertyFrameNumbers
          /\ \A i \in 1..Len(result.frame_analyses) :
                result.frame_analyses[i].frame_number \notin NonPropertyFrameNumbers
          /\ \A k \in DOMAIN result.defect_timeline :
                \A i \in 1..Len(result.defect_timeline[k].occurrences) :
                    result.defect_timeline[k].occurrences[i].frame_number
                        \notin NonPropertyFrameNumbers

\* a returned result for a video one of whose frames was no property image and
\* carried a detection, while another frame's detection was recorded
C3_Witness ==
    /\ pc = "returned"
    /\ result.shape = "full"
    /\ result.total_defects >= 1
    /\ \E i \in 1..Len(frame_results) :
          SaysNotProperty(frame_results[i]) /\ Carried(frame_results[i]) # <<>>

PropertyResults ==
    {i \in 1..Len(frame_results) : ~SaysNotProperty(frame_results[i])}

\* C9 as stated: when every property frame reports score 0 (or there is no
\* property frame), the returned average score is 100.
C9_AverageDefaultsTo100 ==
    (/\ Analyzing
     /\ pc = "returned"
     /\ result.shape \in {"no_defects", "full"}
     /\ \A i \in PropertyResults : frame_results[i].overall_condition_score = Num(0))
    => result.average_score = 100

RECURSIVE Flatten(_)
Flatten(ss) == IF ss = <<>> THEN <<>> ELSE Head(ss) \o Flatten(Tail(ss))

\* the detections the classifier reported for the property frames, in order
ReportedDetections ==
    Flatten([i \in 1..Len(frame_analyses) |-> frame_analyses[i].detections])

BadSeverity(d) == d.severity.t = "absent" \/ d.severity.v \notin Severities

\* C10 as stated: a detection whose severity is missing or outside the four values
\* is medium in the flat list, is counted as medium, and gives "medium" to the
\* timeline entry it opens.
C10_BadSeverityIsMedium ==
    (Analyzing /\ pc = "returned" /\ result.shape = "full") =>
        LET raw == ReportedDetections
            flat == result.all_detections
        IN  /\ \A i \in 1..Len(raw) :
                  BadSeverity(raw[i]) => flat[i].severity = Sev("medium")
            /\ result.defect_summary["medium"] =
                  Cardinality({i \in 1..Len(raw) :
                      BadSeverity(raw[i]) \/ raw[i].severity = Sev("medium")})
            /\ \A i \in 1..Len(raw) :
                  (BadSeverity(raw[i]) /\ \A j \in 1..(i - 1) : placed[j] # placed[i])
                      => result.defect_timeline[placed[i]].severity = "medium"

Succeeded == pc = "returned" /\ result.shape \in {"no_defects", "full"}

\* C11: in every successful result frames_analyzed is the number of frames the
\* sampler yielded, all of them classified, and non_property_frames is the number
\* of those whose classifier result says "not a property image".
C11_FrameCounts ==
    (Analyzing /\ Succeeded) =>
        /\ result.frames_analyzed = Len(frames)
        /\ result.frames_analyzed = Len(frame_results)
        /\ result.non_property_frames =
              Cardinality({i \in 1..Len(frame_results) :
                              SaysNotProperty(frame_results[i])})

\* a full result for a video with property frames, with and without the flag,
\* and a non-property frame
C11_Witness ==
    /\ Succeeded
    /\ result.shape = "full"
    /\ result.non_property_frames >= 1
    /\ result.frames_analyzed > result.non_property_frames + 1
    /\ \E i \in 1..Len(frame_results) : frame_results[i].is_property.t = "absent"

\* C12 as stated: total_defects is the number of detections of the property
\* frames, each severity count is the number of those detections with that
\* severity, and every detection is counted once, so the counts add up to
\* total_defects.
C12_TallyBySeverity ==
    (Analyzing /\ Succeeded) =>
        LET raw == ReportedDetections
            counts == result.defect_summary
        IN  /\ result.total_defects = Len(raw)
            /\ \A s \in Severities :
                  counts[s] = Cardinality({i \in 1..Len(raw) : raw[i].severity = Sev(s)})
            /\ counts["critical"] + counts["high"] + counts["medium"] + counts["low"]
                  = result.total_defects

\* C13 as stated: however extract_frames ends after opening the source (the
\* source exhausted, the cap reached, an exception partway), the decoder handle
\* has been released.
C13_HandleReleased ==
    (ExtractEnded /\ video.opens) => cap = "released"

\* C14 as stated: extract_frames ends with an exception whenever the source does
\* not open or delivers no frame, and never returns an empty list.
C14_EmptyNeverReturned ==
    /\ (ExtractEnded /\ (~video.opens \/ video.readable = 0)) => pc = "raised"
    /\ pc = "extract_returned" => frames # <<>>

\* C14 amended: extract_frames ends with an exception when the source does not
\* open; when it returns, the list is empty exactly when the opened source
\* delivered no frame.
C14_EmptyOnlyWithoutReadableFrame ==
    /\ (ExtractEnded /\ ~video.opens) =>
          pc = "raised" /\ exc = "Exception: Error extracting frames: Failed to open video file"
    /\ pc = "extract_returned" =>
          /\ video.opens
          /\ frames = <<>> <=> video.readable = 0

\* an opened source that reports frames and delivers none: the empty list returned
C14_Witness ==
    /\ pc = "extract_returned"
    /\ video.opens
    /\ video.total_frames > 0
    /\ video.readable = 0
    /\ frames = <<>>
    /\ cap = "released"

\* the degraded frame result: a property image, one synthetic detection of
\* severity medium, score 70
IsDegraded(a) ==
    /\ a.is_property = Bool(TRUE)
    /\ a.overall_condition_score = Num(70)
    /\ a.detections.t = "list"
    /\ Len(a.detections.v) = 1
    /\ a.detections.v[1].severity = Sev("medium")
    /\ a.detections.v[1].detected_object = Str(LblUnavailable)

\* C15 as stated: for every frame on which the classifier call failed, the frame
\* result the pipeline received is the degraded result.
C15_FailureGivesDegraded ==
    \A i \in 1..Len(frame_results) :
        classifier_failed[i] => IsDegraded(frame_results[i])

\* every sampled frame went through the loop and the call has ended
AllFramesClassified ==
    /\ Analyzing
    /\ pc \in {"returned", "raised"}
    /\ frames # <<>>
    /\ Len(frame_results) = Len(frames)

\* C16: when the property frames carried no detection, the call returns a
\* successful result with total_defects 0, the four severity counts 0, average
\* score 100 and a message, and no timeline was built or returned.
C16_NoDetectionResult ==
    (AllFramesClassified /\ ReportedDetections = <<>>) =>
        /\ pc = "returned"
        /\ result.shape = "no_defects"
        /\ result.success = TRUE
        /\ result.total_defects = 0
        /\ \A s \in Severities : result.defect_summary[s] = 0
        /\ result.average_score = 100
        /\ result.message # ""
        /\ "defect_timeline" \notin DOMAIN result
        /\ timeline = <<>>
        /\ t_idx = 0

\* a run without detections in which a property frame scored below 100 and
\* another frame was no property image
C16_Witness ==
    /\ AllFramesClassified
    /\ ReportedDetections = <<>>
    /\ result.shape = "no_defects"
    /\ result.non_property_frames >= 1
    /\ \E i \in 1..Len(frame_analyses) :
          frame_analyses[i].overall_score.t = "int"
          /\ frame_analyses[i].overall_score.v \in 1..99

\* the property frames whose classifier result has a score above 0
ScoredFrames ==
    {i \in PropertyResults :
        /\ frame_results[i].overall_condition_score.t = "int"
        /\ frame_results[i].overall_condition_score.v > 0}

RECURSIVE SumOfScores(_)
SumOfScores(S) ==
    IF S = {} THEN 0
    ELSE LET i == CHOOSE x \in S : TRUE
         IN  frame_results[i].overall_condition_score.v + SumOfScores(S \ {i})

\* C17 as stated: the average score of a successful result is the mean of the
\* scores of the property frames that scored above 0.
C17_AverageIsMean ==
    (Analyzing /\ Succeeded /\ ScoredFrames # {}) =>
        result.average_score * Cardinality(ScoredFrames) = SumOfScores(ScoredFrames)

\* C17 amended: when a detection was recorded and some property frame scored
\* above 0, the average score is the mean of the scores of exactly those frames,
\* truncated to an integer; when no detection was recorded it is 100.
C17_AverageIsTruncatedMean ==
    (Analyzing /\ Succeeded) =>
        LET n == Cardinality(ScoredFrames)
            total == SumOfScores(ScoredFrames)
            avg == result.average_score
        IN  /\ (result.shape = "full" /\ n > 0) =>
                  avg * n <= total /\ total < (avg + 1) * n
            /\ result.shape = "no_defects" => avg = 100

\* a full result whose mean is no integer, with a property frame that scored 0
C17_Witness ==
    /\ Succeeded
    /\ result.shape = "full"
    /\ ScoredFrames # {}
    /\ SumOfScores(ScoredFrames) % Cardinality(ScoredFrames) # 0
    /\ \E i \in PropertyResults : frame_results[i].overall_condition_score = Num(0)

\* the whole part of a / b
WholeQuotient(a, b) == CHOOSE q \in 0..a : q * b <= a /\ a < (q + 1) * b

\* the interval the claim gives for the configuration and the reported length
ClaimedInterval ==
    IF video.total_frames >= cfg.min_frames * cfg.frame_interval
    THEN cfg.frame_interval
    ELSE Max(1, WholeQuotient(video.total_frames, cfg.min_frames))

FrameNumbers == [i \in 1..Len(frames) |-> frames[i].frame_number]

IsDefaultRun(t) ==
    /\ cfg = [frame_interval |-> DefaultFrameInterval, max_frames |-> DefaultMaxFrames,
              min_frames |-> DefaultMinFrames]
    /\ video.total_frames = t
    /\ pc = "extract_returned"

\* C18: once the source is open the interval in use is frame_interval when
\* total_frames >= min_frames * frame_interval and max(1, total_frames /
\* min_frames) otherwise (whole division); the frames emitted so far are the
\* first multiples of it, and at a return they are all the multiples below the
\* number of frames read, up to max_frames of them. Under the defaults 300
\* frames give 0, 30, ..., 270 and 30 frames give 0, 3, ..., 27.
C18_IntervalAndIndices ==
    /\ cap # "none" =>
          /\ frame_interval = ClaimedInterval
          /\ \A i \in 1..Len(frames) : FrameNumbers[i] = (i - 1) * ClaimedInterval
    /\ pc = "extract_returned" =>
          {FrameNumbers[i] : i \in 1..Len(frames)} =
              {k \in 0..(video.readable - 1) :
                  \E j \in 0..(cfg.max_frames - 1) : k = j * ClaimedInterval}
    /\ IsDefaultRun(300) => FrameNumbers = [i \in 1..10 |-> 30 * (i - 1)]
    /\ IsDefaultRun(30) => FrameNumbers = [i \in 1..10 |-> 3 * (i - 1)]

\* the one-second file under the defaults: the interval shrunk to 3, ten frames
C18_Witness ==
    /\ IsDefaultRun(30)
    /\ frame_interval = 3
    /\ frame_interval # cfg.frame_interval
    /\ Len(frames) = 10

\* a normal return for a short video all of whose frames were readable
ShortVideoReturned ==
    /\ pc = "extract_returned"
    /\ video.readable = video.total_frames
    /\ video.total_frames < cfg.min_frames * cfg.frame_interval
    /\ cfg.max_frames >= cfg.min_frames

C19_WitnessTiny ==
    /\ ShortVideoReturned
    /\ 0 < video.total_frames
    /\ video.total_frames < cfg.min_frames
    /\ Len(frames) = video.total_frames

DivisionError == "Exception: Error extracting frames: division by zero"

\* the timestamps the claim gives: index / fps for a positive frame rate, else 0
TimestampsByFps ==
    \A i \in 1..Len(frames) :
        LET ts == frames[i].timestamp
        IN  IF video.fps > 0
            THEN ts.den > 0 /\ ts.num * video.fps = frames[i].frame_number * ts.den
            ELSE ts.num = 0

\* C20 as stated: with a reported frame rate of zero or below extract_frames
\* never ends with a division error and every emitted frame has timestamp 0;
\* with a positive frame rate every timestamp is frame_index / fps.
C20_NoDivisionErrorTimestampByFps ==
    /\ (video.fps <= 0 /\ pc = "raised") => exc # DivisionError
    /\ TimestampsByFps

\* the timestamps of the occurrences filed under an entry
OccurrenceTimes(e) == {e.occurrences[i].timestamp : i \in 1..Len(e.occurrences)}

\* C21 as stated: for a detection list in any order of timestamps, every entry's
\* first_seen is the least and last_seen the greatest timestamp of its
\* occurrences.
C21_SeenIsMinMax ==
    \A k \in DOMAIN timeline :
        LET e == timeline[k]
        IN  /\ e.first_seen \in OccurrenceTimes(e)
            /\ e.last_seen \in OccurrenceTimes(e)
            /\ \A t \in OccurrenceTimes(e) :
                  RLeq(e.first_seen, t) /\ RLeq(t, e.last_seen)

FullReturned == Analyzing /\ pc = "returned" /\ result.shape = "full"

\* the key the claim files a detection under: its label trimmed and lowercased,
\* "unknown" for a detection without label
ClaimedKey(d) ==
    IF HasLabel(d) THEN NormalizedText(d.detected_object.v)
    ELSE <<"u", "n", "k", "n", "o", "w", "n">>

ClaimedConfidence(d) ==
    IF d.confidence_score.t = "absent" THEN 0 ELSE d.confidence_score.v

RECURSIVE SumFrameCounts(_, _)
SumFrameCounts(tl, S) ==
    IF S = {} THEN 0
    ELSE LET k == CHOOSE x \in S : TRUE
         IN  tl[k].frame_count + SumFrameCounts(tl, S \ {k})

\* C22: in a returned result every timeline entry holds exactly the detections
\* of the flat list with its normalized key, in the list's order; its
\* frame_count is the length of its occurrence list, its avg_confidence the
\* mean of the occurrences' confidences, and the frame_counts of all entries
\* add up to total_defects.
C22_EntryAggregatesItsKey ==
    FullReturned =>
        LET tl == result.defect_timeline
            flat == result.all_detections
        IN  /\ DOMAIN tl = {ClaimedKey(flat[i]) : i \in 1..Len(flat)}
            /\ \A k \in DOMAIN tl :
                  LET e == tl[k]
                      mine == SelectSeq(flat, LAMBDA d : ClaimedKey(d) = k)
                      n == Len(e.occurrences)
                  IN  /\ e.frame_count = n
                      /\ n = Len(mine)
                      /\ \A i \in 1..n :
                            /\ e.occurrences[i].timestamp = mine[i].timestamp
                            /\ e.occurrences[i].frame_number = mine[i].frame_number
                            /\ e.occurrences[i].confidence = ClaimedConfidence(mine[i])
                      /\ e.avg_confidence.den > 0
                      /\ e.avg_confidence.num * n =
                            SumSeq([i \in 1..n |-> ClaimedConfidence(mine[i])])
                                * e.avg_confidence.den
            /\ SumFrameCounts(tl, DOMAIN tl) = result.total_defects

\* an entry of three occurrences under two spellings whose mean confidence is
\* no whole number
C22_Witness ==
    /\ FullReturned
    /\ \E k \in DOMAIN result.defect_timeline :
          LET e == result.defect_timeline[k]
          IN  /\ e.frame_count = 3
              /\ e.avg_confidence.den # 1
              /\ \E i, j \in 1..Len(result.all_detections) :
                    /\ ClaimedKey(result.all_detections[i]) = k
                    /\ ClaimedKey(result.all_detections[j]) = k
                    /\ result.all_detections[i].detected_object
                          # result.all_detections[j].detected_object

\* the first folded detection with the key
FirstWithKey(k) ==
    CHOOSE i \in 1..t_idx :
        /\ ClaimedKey(all_detections[i]) = k
        /\ \A j \in 1..(i - 1) : ClaimedKey(all_detections[j]) # k

\* C23: while the list is folded and after, every entry carries the label as
\* written and the severity of the first detection with its key ("Unknown" and
\* "medium" where that detection has none); no later detection changes them.
C23_LabelAndSeverityOfFirst ==
    \A k \in DOMAIN timeline :
        LET d == all_detections[FirstWithKey(k)]
        IN  /\ timeline[k].defect_type =
                  IF HasLabel(d) THEN d.detected_object.v
                  ELSE <<"U", "n", "k", "n", "o", "w", "n">>
            /\ timeline[k].severity =
                  IF d.severity.t = "absent" THEN "medium" ELSE d.severity.v

\* an entry opened by a low detection and then given a high one spelled otherwise
C23_Witness ==
    /\ pc = "returned"
    /\ entry = "_create_defect_timeline"
    /\ \E k \in DOMAIN timeline : \E j \in 1..t_idx :
          /\ j > FirstWithKey(k)
          /\ ClaimedKey(all_detections[j]) = k
          /\ all_detections[j].severity = Sev("high")
          /\ all_detections[j].detected_object
                # all_detections[FirstWithKey(k)].detected_object
          /\ timeline[k].severity = "low"

\* what the classifier reported of a detection
Reported(d) ==
    [detected_object |-> d.detected_object, severity |-> d.severity,
     confidence_score |-> d.confidence_score]

\* C24: the frames classified so far are a prefix of the sampled frames, in
\* strictly increasing frame_index; frame_analyses has strictly increasing
\* frame_numbers; all_detections has non-decreasing frame_numbers and holds,
\* for each analysed frame, that frame's detections in the classifier's order.
C24_OrderPreserved ==
    Analyzing =>
        /\ Len(frame_results) = idx
        /\ \A i, j \in 1..idx :
              i < j => frames[i].frame_number < frames[j].frame_number
        /\ \A i, j \in 1..Len(frame_analyses) :
              i < j => frame_analyses[i].frame_number < frame_analyses[j].frame_number
        /\ \A i, j \in 1..Len(all_detections) :
              i < j => all_detections[i].frame_number <= all_detections[j].frame_number
        /\ \A n \in 1..Len(frame_analyses) :
              LET fa == frame_analyses[n]
                  own == SelectSeq(all_detections,
                                   LAMBDA d : d.frame_number = fa.frame_number)
              IN  [i \in 1..Len(own) |-> Reported(own[i])] = fa.detections

\* a returned run: a frame with two different detections, a later frame with
\* one, and a frame left out between or around them
C24_Witness ==
    /\ FullReturned
    /\ result.non_property_frames >= 1
    /\ Len(result.frame_analyses) = 2
    /\ Len(result.frame_analyses[1].detections) = 2
    /\ result.frame_analyses[1].detections[1] # result.frame_analyses[1].detections[2]
    /\ Len(result.frame_analyses[2].detections) = 1

\* C25: the classifier calls made so far are for the first frames of the
\* sampled list, one call per frame in the list's order, none for a frame that
\* was not sampled and none before sampling ended; at a return their number
\* is frames_analyzed, and a successful run has called it for every frame.
C25_OneCallPerFrame ==
    Analyzing =>
        /\ Len(calls) = idx
        /\ Len(calls) <= Len(frames)
        /\ calls # <<>> => cap = "released"
        /\ \A i \in 1..Len(calls) : calls[i] = frames[i].frame_number
        /\ \A i, j \in 1..Len(calls) : i # j => calls[i] # calls[j]
        /\ pc = "returned" => Len(calls) = result.frames_analyzed
        /\ Succeeded =>
              {calls[i] : i \in 1..Len(calls)} =
                  {frames[i].frame_number : i \in 1..Len(frames)}

\* a returned run of three frames, one of them no property image and one on
\* which the classifier call failed
C25_Witness ==
    /\ Analyzing
    /\ Succeeded
    /\ Len(calls) = 3
    /\ result.non_property_frames >= 1
    /\ \E i \in 1..Len(classifier_failed) : classifier_failed[i]

\* the progress values the claim gives for the frames emitted so far
ProgressAsClaimed ==
    /\ Len(progress) = Len(frames)
    /\ \A i \in 1..Len(progress) :
          LET expected == Min(WholeQuotient(video.total_frames, ClaimedInterval),
                              cfg.max_frames)
              p == progress[i]
          IN  /\ p.den > 0 /\ 0 < p.num /\ p.num <= p.den
              /\ IF i <= expected THEN p.num * expected = i * p.den
                 ELSE p.num = p.den

\* C26 as stated: with a callback, whenever a frame has been emitted the
\* expected count is at least 1, no division error ends the call, and the
\* callback has received min(emitted / expected, 1.0), a value in (0, 1], after
\* each emitted frame.
C26_ProgressDefined ==
    (has_callback /\ frames # <<>>) =>
        /\ expected_frames >= 1
        /\ exc # DivisionError
        /\ ProgressAsClaimed

\* C27 as stated: over one analyze_video_with_ai run the values delivered to the
\* callback never decrease, stand at k / n once k of the n sampled frames have
\* been processed, and 1.0 is delivered only when the last frame has been
\* processed.
C27_ProgressMonotone ==
    (Analyzing /\ has_callback) =>
        /\ \A i, j \in 1..Len(progress) :
              i < j => RLeq(progress[i], progress[j])
        /\ \A i \in 1..Len(progress) :
              progress[i] = One =>
                  /\ pc \notin {"extract", "extract_loop", "extract_returned"}
                  /\ frames # <<>>
                  /\ idx = Len(frames)
        /\ (idx > 0 /\ progress # <<>>) =>
              progress[Len(progress)] = Ratio(idx, Len(frames))

-----------------------------------------------------------------------------
(* Properties of the Streamlit session *)

\* the script is between two handler runs: the sections below the handlers
\* are rendered from the session state as it stands
Rendered == app_pc = "idle"

\* C28 as stated: whenever the video-report section is enabled, the property
\* data, the property id, the key frames and the analysis results of the session
\* were written by one and the same video-analysis run.
C28_VideoReportFromOneRun ==
    (Rendered /\ session.show_pdf_button /\ session.video_analysis_complete) =>
        \E n \in 1..Len(runs) :
            /\ runs[n].kind = "video"
            /\ session.stored_property_data = n
            /\ session.current_property_id = n
            /\ session.video_key_frames = n
            /\ session.video_analysis_results = n

\* C29 as stated: when the last handler run was an image inspection that ended
\* with a finding, the image-report section is enabled in the rerun after it,
\* whatever ran earlier in the session.
C29_ImageReportAfterFindings ==
    (/\ Rendered
     /\ runs # <<>>
     /\ runs[Len(runs)] = [kind |-> "image", outcome |-> "findings"])
    => ImagePdfSection(session)

====
